---- MODULE Spec2Model ----
(***************************************************************************)
(* Model of KaggleApp/Scripts/algo.py: the persistent moderation-scoring   *)
(* server.  main() reads request lines from stdin, decodes each as JSON,   *)
(* scores every comment of the batch against every per-rule model of the   *)
(* registry `models`, and prints one response line per request.            *)
(*                                                                         *)
(* Probabilities are modelled in hundredths (50 stands for 0.5).  The      *)
(* pickled vectorizers and classifiers are opaque: the table `proba`       *)
(* gives, for a comment body and a rule, what predict_proba returns for    *)
(* the assembled feature row, or Raise when the model throws.              *)
(***************************************************************************)
EXTENDS Integers, Sequences, FiniteSets, TLC

VARIABLES
    models,         \* the registry: rule names in the order models.items() yields them
    proba,          \* what each rule's model returns for each comment body
    comments,       \* main()'s local `comments`
    line,           \* main()'s local `line`: the line read last
    printed,        \* the response printed for that line, if any
    nread,          \* lines read from stdin so far
    nrequests,      \* non-blank lines among them
    nprinted,       \* lines written to stdout so far
    memo,           \* an earlier request and what was printed for it
    pc,             \* where the process is
    work,           \* the library calls made for the line read last
    body, k, max_prob, violated_rule, result,   \* locals of the scoring loop
    text,           \* one cell of df["body"] given to add_numeric_features
    features        \* the numeric features computed for it

vars == <<models, proba, comments, line, printed, nread, nrequests, nprinted, memo, pc,
          work, body, k, max_prob, violated_rule, result, text, features>>

ioVars == <<line, printed, nread, nrequests, nprinted, memo>>

scoreVars == <<body, k, max_prob, violated_rule, result>>

featVars == <<text, features>>

(***************************************************************************)
(* Bounds                                                                  *)
(***************************************************************************)
\* longest request batch that is enumerated
MaxBatch == 2

\* number of input lines the process reads before the stream is closed
MaxLines == 4

\* number of pieces a comment text given to add_numeric_features is made of
MaxChunks == 4

(***************************************************************************)
(* Values                                                                  *)
(***************************************************************************)
\* rule identifiers found in the scripts folder (logreg_model_rule_<id>.pkl)
Rules == {"r1", "r2", "r3"}

\* comment bodies (strings) that requests carry
Bodies == {"a", "b"}

\* a JSON number, standing in a comment list where a string is expected
NonStr == "#7"

\* predict_proba outcomes, in hundredths; Raise is a model that throws
Raise == -1

ProbVals == {0, 49, 50, 90}

\* the message of the exception a throwing model raises
ModelError == "predict_proba failed"

\* the threshold of line 100, in hundredths
Threshold == 50

\* Python's None, held by violated_rule until a rule exceeds max_prob
None == "None"

\* a JSON value as Python holds it: its type and its items (the elements of
\* a list, the characters of a string, the literal of a number)
JList(s) == [t |-> "list", v |-> s]

JStr(s) == [t |-> "str", v |-> s]

JNum(n) == [t |-> "num", v |-> <<n>>]

\* the local variable `comments` of main() before its first assignment
Unbound == [t |-> "unbound", v |-> <<>>]

SeqsUpTo(S, n) == UNION {[1..m -> S] : m \in 0..n}

\* every list of at most MaxBatch comment strings
Batches == {JList(s) : s \in SeqsUpTo(Bodies, MaxBatch)}

\* values the "comments" key of a request object can hold: a list of
\* strings, a list holding a number, a bare string, a bare number
CommentValues == Batches \cup {JList(<<NonStr>>), JStr(<<"x", "y">>), JNum("5")}

\* main()'s local `line` before the first line is read
NoLine == [kind |-> "none"]

\* the lines a caller can send: whitespace only, text that is not JSON, a
\* JSON value that is not an object, an object without "comments", and an
\* object with "comments"
Lines ==
    {[kind |-> "blank"], [kind |-> "text"], [kind |-> "array"], [kind |-> "nokey"]}
    \cup {[kind |-> "object", comments |-> c] : c \in CommentValues}

\* every iteration order of every subset of the rules
Registries ==
    {s \in SeqsUpTo(Rules, Cardinality(Rules)) :
        \A i, j \in DOMAIN s : i # j => s[i] # s[j]}

(***************************************************************************)
(* Utility functions                                                       *)
(***************************************************************************)
RECURSIVE Repeat(_, _)
Repeat(x, n) == IF n = 0 THEN <<>> ELSE <<x>> \o Repeat(x, n - 1)

\* line 64-65: line.strip() is empty
IsBlank(l) == l.kind = "blank"

\* line 69: json.loads raises JSONDecodeError on text that is not JSON
JsonLoadsFails(l) == l.kind = "text"

\* variant: a missing "comments" key raises like a value without .get
HasGet_KeyRequired(l) == l.kind = "object"

\* line 70: data.get exists only on a dict
HasGet(l) == l.kind \in {"nokey", "object"}

\* line 70: data.get("comments", [])
GetComments(l) == IF l.kind = "object" THEN l.comments ELSE JList(<<>>)

\* line 117: `for _ in comments` needs an iterable
Iterable(c) == c.t \in {"list", "str"}

\* line 76: pd.DataFrame({"body": comments}) rejects a scalar
DataFrameFails(c) == c.t # "list"

\* line 46-55: the .str accessor and x's iteration need strings
add_numeric_features_fails(c) == \E i \in DOMAIN c.v : c.v[i] = NonStr

\* line 90-93: the probability the rule's model returns for the row built
\* from the comment body, the rule name and the numeric features
PredictProba(b, rule_name) == proba[<<b, rule_name>>]

\* variant: `>=` in place of `>`, so a later rule takes over a tie
RuleStep_LastWins(acc, rule_name, prob) ==
    IF prob >= acc.max_prob
    THEN [max_prob |-> prob, violated_rule |-> rule_name]
    ELSE acc

\* variant: a larger probability is taken but the rule recorded first stays
RuleStep_StaleRule(acc, rule_name, prob) ==
    IF prob > acc.max_prob
    THEN [max_prob |-> prob,
          violated_rule |-> IF acc.violated_rule = None THEN rule_name
                            ELSE acc.violated_rule]
    ELSE acc

\* variant: the comparison is dropped, every rule replaces the one before
RuleStep_NoCompare(acc, rule_name, prob) ==
    [max_prob |-> prob, violated_rule |-> rule_name]

\* variant: only the first rule above 0 is ever recorded
RuleStep_KeepFirst(acc, rule_name, prob) ==
    IF prob > acc.max_prob /\ acc.violated_rule = None
    THEN [max_prob |-> prob, violated_rule |-> rule_name]
    ELSE acc

\* line 93-96: one pass of the per-rule loop body
RuleStep(acc, rule_name, prob) ==
    IF prob > acc.max_prob
    THEN [max_prob |-> prob, violated_rule |-> rule_name]
    ELSE acc

\* line 88-96: the loop over the items of a registry, from position j on;
\* calls lists the rules whose model was asked, in order
RECURSIVE RuleLoopIn(_, _, _, _)
RuleLoopIn(reg, b, j, acc) ==
    IF j > Len(reg) THEN [raised |-> FALSE, acc |-> acc, calls |-> <<>>]
    ELSE LET prob == PredictProba(b, reg[j])
         IN IF prob = Raise THEN [raised |-> TRUE, acc |-> acc, calls |-> <<reg[j]>>]
            ELSE LET r == RuleLoopIn(reg, b, j + 1, RuleStep(acc, reg[j], prob))
                 IN [r EXCEPT !.calls = <<reg[j]>> \o @]

\* line 88-96: the loop over models.items()
RuleLoop(b, j, acc) == RuleLoopIn(models, b, j, acc)

\* variant: `>` in place of `>=`, so exactly 0.5 stays Safe
Status_Exclusive(mp) == IF mp > Threshold THEN "Violates rule" ELSE "Safe"

\* line 99-101
Status(mp) == IF mp >= Threshold THEN "Violates rule" ELSE "Safe"

\* variant: violated_rule is reported whatever the status
ResultEntry_RawRule(acc) ==
    [probability |-> acc.max_prob,
     status |-> Status(acc.max_prob),
     rule |-> acc.violated_rule]

\* line 103-107
ResultEntry(acc) ==
    [probability |-> acc.max_prob,
     status |-> Status(acc.max_prob),
     rule |-> IF Status(acc.max_prob) # "Safe" THEN acc.violated_rule ELSE ""]

\* line 85-86
StartAcc == [max_prob |-> 0, violated_rule |-> None]

\* line 117: one entry of the error response
ErrorEntry(e) == [probability |-> 0, status |-> "Error", rule |-> "", error |-> e]

\* line 90-93 for row i of df: one predict_proba call per rule asked
RowCalls(i, rules) == [j \in DOMAIN rules |-> [row |-> i, rule |-> rules[j]]]

\* variant: the exception is caught per row, which gets an Error entry
\* while the other rows keep their scores
RECURSIVE ScoreRows_PerRowError(_, _, _)
ScoreRows_PerRowError(bs, i, results) ==
    IF i > Len(bs) THEN [raised |-> FALSE, results |-> results, calls |-> <<>>]
    ELSE LET r == RuleLoop(bs[i], 1, StartAcc)
             rest == ScoreRows_PerRowError(bs, i + 1,
                        Append(results, IF r.raised THEN ErrorEntry(ModelError)
                                        ELSE ResultEntry(r.acc)))
         IN [rest EXCEPT !.calls = RowCalls(i, r.calls) \o @]

\* variant: each entry is inserted in front, so results come out reversed
RECURSIVE ScoreRows_Reversed(_, _, _)
ScoreRows_Reversed(bs, i, results) ==
    IF i > Len(bs) THEN [raised |-> FALSE, results |-> results, calls |-> <<>>]
    ELSE LET r == RuleLoop(bs[i], 1, StartAcc)
         IN IF r.raised
            THEN [raised |-> TRUE, results |-> results, calls |-> RowCalls(i, r.calls)]
            ELSE LET rest == ScoreRows_Reversed(bs, i + 1, <<ResultEntry(r.acc)>> \o results)
                 IN [rest EXCEPT !.calls = RowCalls(i, r.calls) \o @]

\* line 84-107: the loop over the rows of df, from row i on; a model that
\* throws ends it with the results appended so far
RECURSIVE ScoreRows(_, _, _)
ScoreRows(bs, i, results) ==
    IF i > Len(bs) THEN [raised |-> FALSE, results |-> results, calls |-> <<>>]
    ELSE LET r == RuleLoop(bs[i], 1, StartAcc)
         IN IF r.raised
            THEN [raised |-> TRUE, results |-> results, calls |-> RowCalls(i, r.calls)]
            ELSE LET rest == ScoreRows(bs, i + 1, Append(results, ResultEntry(r.acc)))
                 IN [rest EXCEPT !.calls = RowCalls(i, r.calls) \o @]

\* variant: the error response never echoes a batch
ErrResp_NoEcho(c, e) ==
    [comments |-> JList(<<>>),
     results |-> Repeat(ErrorEntry(e), Len(c.v))]

\* line 116-117: the error response, built from whatever `comments` holds
ErrResp(c, e) ==
    [comments |-> IF c = Unbound THEN JList(<<>>) ELSE c,
     results |-> Repeat(ErrorEntry(e), Len(c.v))]

\* line 117: the comprehension reads `comments`; unbound or not iterable,
\* it raises inside the handler and the exception leaves main()
HandlerRaises(c) == c = Unbound \/ ~Iterable(c)

\* the library calls made while a line is handled: the batch-level stages
\* of line 76-80 that were entered, and the predict_proba calls of line 93
Work(stages, calls) == [stages |-> stages, calls |-> calls]

NoWork == Work(<<>>, <<>>)

\* line 68-118 for one non-blank line, given what `comments` held before:
\* the new binding of `comments`, the line printed (if any), whether an
\* exception left the loop, and the library calls made
Outcome(c, out, crash, w) == [comments |-> c, out |-> out, crash |-> crash, work |-> w]

Except(c, e, w) ==
    IF HandlerRaises(c) THEN Outcome(c, <<>>, TRUE, w)
    ELSE Outcome(c, <<ErrResp(c, e)>>, FALSE, w)

\* variant: the empty batch is not short-circuited
Falsy_Never(c) == FALSE

\* line 71: `not comments` -- an empty list or string, zero, None
Falsy(c) == \/ c.t \in {"list", "str"} /\ c.v = <<>>
            \/ c.t = "num" /\ c.v = <<"0">>

Handle(l, old) ==
    IF JsonLoadsFails(l) THEN Except(old, "Expecting value", NoWork)
    ELSE IF ~HasGet(l) THEN Except(old, "'list' object has no attribute 'get'", NoWork)
    ELSE LET c == GetComments(l)
         IN IF Falsy(c)
            THEN Outcome(c, <<[comments |-> JList(<<>>), predictions |-> <<>>]>>, FALSE, NoWork)
            ELSE IF DataFrameFails(c)
            THEN Except(c, "If using all scalar values, you must pass an index",
                        Work(<<"DataFrame">>, <<>>))
            ELSE IF add_numeric_features_fails(c)
            THEN Except(c, "Can only use .str accessor with string values!",
                        Work(<<"DataFrame", "add_numeric_features">>, <<>>))
            ELSE LET s == ScoreRows(c.v, 1, <<>>)
                     w == Work(<<"DataFrame", "add_numeric_features",
                                 "body_tfidf.transform", "csr_matrix">>, s.calls)
                 IN IF s.raised THEN Except(c, ModelError, w)
                    ELSE Outcome(c, <<[comments |-> c, results |-> s.results]>>, FALSE, w)

(***************************************************************************)
(* The server loop                                                         *)
(***************************************************************************)
Banner == [banner |-> "Python server ready."]

\* "a" violates r1 and is safe under the other rules; "b" is safe under r1
\* and r3, and the model of r2 throws on it
ServerProba ==
    {[p \in (Bodies \X Rules) |->
        IF p[1] = "a" THEN (IF p[2] = "r1" THEN 90 ELSE 49)
        ELSE (IF p[2] = "r2" THEN Raise ELSE 0)]}

ServerRegistries == {<<>>, <<"r1">>, <<"r3", "r1", "r2">>}

\* add_numeric_features is not running
IdleFeatures ==
    /\ text = [null |-> FALSE, chars |-> <<>>]
    /\ features = <<>>

IdleScore ==
    /\ body = "a"
    /\ k = 0
    /\ max_prob = 0
    /\ violated_rule = None
    /\ result = <<>>

Init ==
    /\ models \in ServerRegistries
    /\ proba \in ServerProba
    /\ comments = Unbound
    /\ line = NoLine
    /\ printed = <<>>
    /\ nread = 0
    /\ nrequests = 0
    /\ nprinted = 0
    /\ memo = <<>>
    /\ pc = "start"
    /\ work = NoWork
    /\ IdleScore
    /\ IdleFeatures

\* line 61
Ready ==
    /\ pc = "start"
    /\ nprinted' = nprinted + 1
    /\ pc' = "loop"
    /\ UNCHANGED <<models, proba, comments, line, printed, nread, nrequests, memo, work>>
    /\ UNCHANGED scoreVars
    /\ UNCHANGED featVars

\* line 63-66: a blank line is read and skipped
SkipBlank(l) ==
    /\ pc = "loop"
    /\ nread < MaxLines
    /\ IsBlank(l)
    /\ line' = l
    /\ printed' = <<>>
    /\ nread' = nread + 1
    /\ work' = NoWork
    /\ UNCHANGED <<models, proba, comments, nrequests, nprinted, memo, pc>>
    /\ UNCHANGED scoreVars
    /\ UNCHANGED featVars

\* line 63-118: a request line is read and handled
Request(l) ==
    /\ pc = "loop"
    /\ nread < MaxLines
    /\ ~IsBlank(l)
    /\ LET o == Handle(l, comments)
       IN /\ comments' = o.comments
          /\ printed' = o.out
          /\ nprinted' = nprinted + Len(o.out)
          /\ pc' = IF o.crash THEN "crashed" ELSE "loop"
          /\ memo' \in {memo, <<[line |-> l, out |-> o.out]>>}
          /\ work' = o.work
    /\ line' = l
    /\ nread' = nread + 1
    /\ nrequests' = nrequests + 1
    /\ UNCHANGED <<models, proba>>
    /\ UNCHANGED scoreVars
    /\ UNCHANGED featVars

\* line 63: the input stream is exhausted and main() returns
EndOfInput ==
    /\ pc = "loop"
    /\ pc' = "eof"
    /\ UNCHANGED <<models, proba, comments, work>>
    /\ UNCHANGED ioVars
    /\ UNCHANGED scoreVars
    /\ UNCHANGED featVars

Next ==
    \/ Ready
    \/ \E l \in Lines : SkipBlank(l)
    \/ \E l \in Lines : Request(l)
    \/ EndOfInput

Spec == Init /\ [][Next]_vars

(***************************************************************************)
(* The scoring of one comment, rule by rule (lines 85-107)                 *)
(***************************************************************************)
\* the tables the scorer is run on: every outcome of every rule's model on
\* the comment that is scored
ScoreProba ==
    {[p \in (Bodies \X Rules) |-> IF p[1] = "a" THEN f[p[2]] ELSE 0] :
        f \in [Rules -> ProbVals \cup {Raise}]}

ScoreInit ==
    /\ models \in Registries
    /\ proba \in ScoreProba
    /\ comments = JList(<<"a">>)
    /\ line = [kind |-> "object", comments |-> JList(<<"a">>)]
    /\ printed = <<>>
    /\ nread = 1
    /\ nrequests = 1
    /\ nprinted = 1
    /\ memo = <<>>
    /\ pc = "row"
    /\ work = Work(<<"DataFrame", "add_numeric_features", "body_tfidf.transform", "csr_matrix">>, <<>>)
    /\ IdleScore
    /\ IdleFeatures

\* line 85-86
RowBegin ==
    /\ pc = "row"
    /\ max_prob' = StartAcc.max_prob
    /\ violated_rule' = StartAcc.violated_rule
    /\ k' = 1
    /\ pc' = "rules"
    /\ UNCHANGED <<models, proba, comments, work, body, result>>
    /\ UNCHANGED ioVars
    /\ UNCHANGED featVars

\* line 88-96: the model of the next rule returns a probability
RuleIter ==
    /\ pc = "rules"
    /\ k <= Len(models)
    /\ PredictProba(body, models[k]) # Raise
    /\ LET acc == RuleStep([max_prob |-> max_prob, violated_rule |-> violated_rule],
                           models[k], PredictProba(body, models[k]))
       IN /\ max_prob' = acc.max_prob
          /\ violated_rule' = acc.violated_rule
    /\ k' = k + 1
    /\ work' = [work EXCEPT !.calls = @ \o RowCalls(1, <<models[k]>>)]
    /\ UNCHANGED <<models, proba, comments, pc, body, result>>
    /\ UNCHANGED ioVars
    /\ UNCHANGED featVars

\* line 93: the model of the next rule throws
RuleRaises ==
    /\ pc = "rules"
    /\ k <= Len(models)
    /\ PredictProba(body, models[k]) = Raise
    /\ pc' = "raised"
    /\ work' = [work EXCEPT !.calls = @ \o RowCalls(1, <<models[k]>>)]
    /\ UNCHANGED <<models, proba, comments>>
    /\ UNCHANGED ioVars
    /\ UNCHANGED scoreVars
    /\ UNCHANGED featVars

\* line 98-107: the registry is exhausted and the entry is appended
Verdict ==
    /\ pc = "rules"
    /\ k > Len(models)
    /\ result' = <<ResultEntry([max_prob |-> max_prob, violated_rule |-> violated_rule])>>
    /\ pc' = "scored"
    /\ UNCHANGED <<models, proba, comments, work, body, k, max_prob, violated_rule>>
    /\ UNCHANGED ioVars
    /\ UNCHANGED featVars

ScoreNext ==
    \/ RowBegin
    \/ RuleIter
    \/ RuleRaises
    \/ Verdict

ScoreSpec == ScoreInit /\ [][ScoreNext]_vars

(***************************************************************************)
(* add_numeric_features on one comment (lines 46-55)                       *)
(***************************************************************************)
\* the pieces comment texts are made of; a text is a sequence of characters
Chunks ==
    {<<"h", "t", "t", "p">>, <<"H", "T", "T", "P">>, <<"s">>, <<"S">>,
     <<":", "/", "/">>, <<"!">>, <<"?">>, <<" ">>, <<"A">>, <<"x">>}

RECURSIVE Flatten(_)
Flatten(cs) == IF cs = <<>> THEN <<>> ELSE Head(cs) \o Flatten(Tail(cs))

Texts == {Flatten(cs) : cs \in SeqsUpTo(Chunks, MaxChunks)}

\* the cells of df["body"]: a string, or null (None / NaN)
Cells == {[null |-> FALSE, chars |-> t] : t \in Texts} \cup {[null |-> TRUE, chars |-> <<>>]}

\* line 48: fillna("")
FillNa(cell) == IF cell.null THEN <<>> ELSE cell.chars

\* str.isupper() of one character
IsUpper(c) == c \in {"H", "T", "P", "S", "A"}

\* str.isspace() of one character
IsSpace(c) == c = " "

\* the lower-case form of one character
ToLower(c) ==
    CASE c = "H" -> "h" [] c = "T" -> "t" [] c = "P" -> "p"
      [] c = "S" -> "s" [] c = "A" -> "a" [] OTHER -> c

LowerText(x) == [i \in DOMAIN x |-> ToLower(x[i])]

\* the pattern's literal pat stands in x at position i
LitAt(x, i, pat) ==
    /\ i + Len(pat) - 1 <= Len(x)
    /\ \A j \in DOMAIN pat : x[i + j - 1] = pat[j]

\* line 51: the regular expression http[s]?:// matches x at position i
UrlAt(x, i) ==
    /\ LitAt(x, i, <<"h", "t", "t", "p">>)
    /\ \/ LitAt(x, i + 4, <<"s">>) /\ LitAt(x, i + 5, <<":", "/", "/">>)
       \/ LitAt(x, i + 4, <<":", "/", "/">>)

\* line 51: str.contains searches every position
UrlSearch(x) == \E i \in DOMAIN x : UrlAt(x, i)

\* variant: the search ignores case (case=False)
has_url_IgnoreCase(x) == IF UrlSearch(LowerText(x)) THEN 1 ELSE 0

\* line 51: body.str.contains(r"http[s]?://", na=False).astype(int)
has_url(x) == IF UrlSearch(x) THEN 1 ELSE 0

\* line 52-53: str.count of one character, from position i on
RECURSIVE CountFrom(_, _, _)
CountFrom(x, c, i) ==
    IF i > Len(x) THEN 0
    ELSE (IF x[i] = c THEN 1 ELSE 0) + CountFrom(x, c, i + 1)

\* line 50: the number of tokens str.split() yields, from position i on
RECURSIVE WordsFrom(_, _)
WordsFrom(x, i) ==
    IF i > Len(x) THEN 0
    ELSE (IF ~IsSpace(x[i]) /\ (i = 1 \/ IsSpace(x[i - 1])) THEN 1 ELSE 0)
         + WordsFrom(x, i + 1)

\* line 54: sum(c.isupper() for c in x), from position i on
RECURSIVE UpperFrom(_, _)
UpperFrom(x, i) ==
    IF i > Len(x) THEN 0
    ELSE (IF IsUpper(x[i]) THEN 1 ELSE 0) + UpperFrom(x, i + 1)

\* variant: the denominator without its guard
Denominator_NoGuard(x) == Len(x)

\* line 54: max(len(x), 1)
Denominator(x) == IF Len(x) > 1 THEN Len(x) ELSE 1

\* line 54: the ratio, as numerator and denominator
uppercase_ratio(x) == [num |-> UpperFrom(x, 1), den |-> Denominator(x)]

\* line 49-54: the features of one cell
NumericFeatures(x) ==
    [body_length |-> Len(x),
     word_count |-> WordsFrom(x, 1),
     has_url |-> has_url(x),
     exclamations |-> CountFrom(x, "!", 1),
     questions |-> CountFrom(x, "?", 1),
     uppercase_ratio |-> uppercase_ratio(x)]

FeatInit ==
    /\ models = <<>>
    /\ proba \in ServerProba
    /\ comments = Unbound
    /\ line = NoLine
    /\ printed = <<>>
    /\ nread = 0
    /\ nrequests = 0
    /\ nprinted = 0
    /\ memo = <<>>
    /\ work = Work(<<"DataFrame">>, <<>>)
    /\ IdleScore
    /\ text \in Cells
    /\ features = <<>>
    /\ pc = "df"

\* line 46-55: the features are computed; a division by zero raises
add_numeric_features ==
    /\ pc = "df"
    /\ LET x == FillNa(text)
       IN IF Denominator(x) = 0
          THEN /\ pc' = "failed"
               /\ features' = features
          ELSE /\ pc' = "featured"
               /\ features' = <<NumericFeatures(x)>>
    /\ work' = [work EXCEPT !.stages = Append(@, "add_numeric_features")]
    /\ UNCHANGED <<models, proba, comments, text>>
    /\ UNCHANGED ioVars
    /\ UNCHANGED scoreVars

FeatNext == add_numeric_features

FeatSpec == FeatInit /\ [][FeatNext]_vars

(***************************************************************************)
(* Properties of the server loop                                           *)
(***************************************************************************)
\* the line read last was answered
Answered == printed # <<>>

Response == printed[1]

\* C1: the request loop never exits because of a request line; it is left
\* only when the input stream is exhausted.
C1_LoopNeverExitsOnRequest == pc \in {"start", "loop", "eof"}

\* C2: the response to a line that fails JSON decoding has an empty
\* "comments" list, whatever was processed before it.
C2_DecodeFailureEchoesNothing ==
    JsonLoadsFails(line) /\ Answered => Response.comments = JList(<<>>)

\* C3: exactly one response per non-blank line and none per blank line, each
\* printed before the next line is read: stdout holds the ready line and one
\* line per request read, the last of them for the request read last.
C3_OneResponsePerRequest ==
    pc # "start" =>
        /\ nprinted = 1 + nrequests
        /\ line # NoLine => (IF IsBlank(line) THEN ~Answered ELSE Len(printed) = 1)

\* the line read last is a request whose "comments" decoded to a non-empty list
ListRequest ==
    /\ line.kind = "object"
    /\ line.comments.t = "list"
    /\ line.comments.v # <<>>

Batch == line.comments.v

IsScoredEntry(e) == e.status \in {"Safe", "Violates rule"}

IsErrorEntry(e) == e.status = "Error" /\ e.probability = 0 /\ e.rule = ""

\* feature extraction fails on the batch, or some rule's model throws on
\* one of its comments
BatchRaises(c) ==
    \/ add_numeric_features_fails(c)
    \/ \E j \in DOMAIN c.v : \E m \in DOMAIN models :
          PredictProba(c.v[j], models[m]) = Raise

\* C4: a batch is atomic with respect to failure: the response to a
\* non-empty list has one entry per comment, every entry scored when nothing
\* raised and every entry an Error entry when something did; never a mix.
C4_BatchAtomic ==
    ListRequest =>
        /\ Answered
        /\ "results" \in DOMAIN Response
        /\ Response.comments = line.comments
        /\ Len(Response.results) = Len(Batch)
        /\ IF BatchRaises(line.comments)
           THEN \A j \in DOMAIN Response.results : IsErrorEntry(Response.results[j])
           ELSE \A j \in DOMAIN Response.results : IsScoredEntry(Response.results[j])

\* the first comment of a batch was scored, the model threw on the second,
\* and the response reports both as Error
C4_Witness ==
    /\ ListRequest
    /\ Batch = <<"a", "b">>
    /\ ~RuleLoop("a", 1, StartAcc).raised
    /\ RuleLoop("b", 1, StartAcc).raised
    /\ Answered
    /\ Response.results = <<ErrorEntry(ModelError), ErrorEntry(ModelError)>>

\* C5 as stated: an object without the "comments" field is answered in the
\* failure shape, with the field "results".
C5_MissingFieldIsError ==
    line.kind = "nokey" /\ Answered => "results" \in DOMAIN Response

\* C5 amended: an object without the "comments" field is answered as the
\* empty batch, {"comments": [], "predictions": []}, with no Error entry.
C5_MissingFieldIsEmptyBatch ==
    line.kind = "nokey" =>
        /\ Answered
        /\ Response = [comments |-> JList(<<>>), predictions |-> <<>>]

\* an object without "comments" was answered after a non-empty batch
C5_Witness ==
    /\ line.kind = "nokey"
    /\ Answered
    /\ memo # <<>>
    /\ memo[1].line.kind = "object"
    /\ memo[1].line.comments = JList(<<"a", "b">>)

MaxOf(S) == CHOOSE m \in S : \A x \in S : x <= m

\* the largest probability any rule of the registry gives the comment, or 0
BestProb(b) == MaxOf({0} \cup {PredictProba(b, models[j]) : j \in DOMAIN models})

\* C6: the response to a successfully scored batch B echoes B and has
\* len(B) results, the j-th being the score of the j-th comment.
C6_ResultsInOrder ==
    ListRequest /\ ~BatchRaises(line.comments) =>
        /\ Answered
        /\ Response.comments = line.comments
        /\ Len(Response.results) = Len(Batch)
        /\ \A j \in DOMAIN Response.results :
              /\ Response.results[j].probability = BestProb(Batch[j])
              /\ Response.results[j] = ScoreRows(<<Batch[j]>>, 1, <<>>).results[1]

\* a batch of two comments with different scores was answered
C6_Witness ==
    /\ ListRequest
    /\ Batch = <<"b", "a">>
    /\ Answered
    /\ Response.results[1].probability = 0
    /\ Response.results[2].probability = 90

\* C9: the same request line sent twice to one process is answered twice
\* with the same response.
C9_Idempotent ==
    memo # <<>> /\ memo[1].line = line /\ memo[1].out # <<>> /\ Answered
        => printed = memo[1].out

\* a line whose handling raises an exception
Fails(l) ==
    \/ JsonLoadsFails(l)
    \/ ~HasGet(l)
    \/ /\ ~Falsy(GetComments(l))
       /\ \/ DataFrameFails(GetComments(l))
          \/ BatchRaises(GetComments(l))

\* a request as the protocol defines it: an object with a list of strings
WellFormed(l) ==
    /\ l.kind = "object"
    /\ l.comments.t = "list"
    /\ ~add_numeric_features_fails(l.comments)

\* C10: after a failed request the process still answers every well-formed
\* request, and with the response it gives when nothing failed before.
C10_ErrorIsolation ==
    memo # <<>> /\ Fails(memo[1].line) =>
        /\ pc # "crashed"
        /\ \A l \in Lines :
              WellFormed(l) => Handle(l, comments).out = Handle(l, Unbound).out

\* the line read last is a request whose "comments" decoded to the empty list
EmptyRequest ==
    /\ line.kind = "object"
    /\ line.comments = JList(<<>>)

\* C11: an empty comment list is answered exactly with
\* {"comments": [], "predictions": []}, and neither feature extraction nor
\* vectorization nor any model is invoked for it.
C11_EmptyBatchShortCircuits ==
    EmptyRequest =>
        /\ printed = <<[comments |-> JList(<<>>), predictions |-> <<>>]>>
        /\ work.stages = <<>>
        /\ work.calls = <<>>

\* an empty list was answered after a batch for which the models were asked
C11_Witness ==
    /\ EmptyRequest
    /\ Answered
    /\ memo # <<>>
    /\ memo[1].line.kind = "object"
    /\ memo[1].line.comments = JList(<<"a", "b">>)
    /\ Len(models) > 0

\* C12: with an empty registry every comment of every non-empty batch of
\* strings is reported with probability 0.0, status "Safe" and rule "".
C12_EmptyRegistryAllSafe ==
    models = <<>> /\ ListRequest /\ WellFormed(line) =>
        /\ Answered
        /\ "results" \in DOMAIN Response
        /\ Len(Response.results) = Len(Batch)
        /\ \A j \in DOMAIN Response.results :
              Response.results[j] = [probability |-> 0, status |-> "Safe", rule |-> ""]
        /\ work.calls = <<>>

\* a batch of two comments was answered by a process without any rule model
C12_Witness ==
    /\ models = <<>>
    /\ ListRequest
    /\ Batch = <<"a", "b">>
    /\ Answered
    /\ Len(Response.results) = 2

\* the entries of the response to the line read last
Entries == IF Answered /\ "results" \in DOMAIN Response THEN Response.results ELSE <<>>

RegistryKeys == {models[j] : j \in DOMAIN models}

\* C17: in every emitted entry, "Violates rule" comes with a rule of the
\* registry whose own probability for that comment is the reported one,
\* "Safe" with rule "" and a probability below 0.5, "Error" with probability
\* 0.0 and rule ""; the rule is never null.
C17_EntryInvariant ==
    \A j \in DOMAIN Entries :
        LET e == Entries[j]
        IN /\ e.rule # None
           /\ e.status \in {"Violates rule", "Safe", "Error"}
           /\ e.status = "Violates rule" =>
                 /\ e.rule \in RegistryKeys
                 /\ e.rule # ""
                 /\ PredictProba(Response.comments.v[j], e.rule) = e.probability
           /\ e.status = "Safe" => e.rule = "" /\ e.probability < Threshold
           /\ e.status = "Error" => e.rule = "" /\ e.probability = 0

\* a response with a violating entry whose rule is not the first of the
\* registry, next to one with a safe entry
C17_Witness ==
    /\ Len(Entries) = 2
    /\ Entries[1].status = "Violates rule"
    /\ Entries[1].rule # models[1]
    /\ Entries[2].status = "Violates rule"

\* the line read last failed before `comments` was assigned
FailsBeforeAssignment(l) == JsonLoadsFails(l) \/ (~IsBlank(l) /\ ~HasGet(l))

TopPositions ==
    {j \in DOMAIN models :
        \A m \in DOMAIN models :
            PredictProba(body, models[m]) <= PredictProba(body, models[j])}

FirstTop == CHOOSE j \in TopPositions : \A m \in TopPositions : j <= m

Tie == Cardinality(TopPositions) >= 2

\* C7 as stated: whenever two or more rules share the maximal probability,
\* the rule selected is the first of them in iteration order.
C7_TieKeepsFirst ==
    pc = "scored" /\ Tie => violated_rule = models[FirstTop]

\* C7 amended: whenever two or more rules share the maximal probability and
\* it is above 0, the rule selected (and reported, if the verdict is
\* Violates) is the first of them in iteration order; at 0 no rule is
\* selected and the reported rule is empty.
C7_TieKeepsFirstAboveZero ==
    pc = "scored" /\ Tie =>
        IF PredictProba(body, models[FirstTop]) > 0
        THEN /\ violated_rule = models[FirstTop]
             /\ result[1].status = "Violates rule" => result[1].rule = models[FirstTop]
        ELSE /\ violated_rule = None
             /\ result[1].rule = ""

\* three rules tie at a probability that violates and the first was kept
C7_Witness ==
    /\ pc = "scored"
    /\ Cardinality(TopPositions) = 3
    /\ PredictProba(body, models[1]) = 90
    /\ result[1].status = "Violates rule"
    /\ result[1].rule = models[1]

\* C8: status is "Violates rule" exactly when the maximum probability is at
\* least 0.5, and "Safe" for every maximum below it.
C8_ThresholdInclusive ==
    pc = "scored" =>
        /\ result[1].probability = BestProb(body)
        /\ result[1].status \in {"Safe", "Violates rule"}
        /\ result[1].status = "Violates rule" <=> BestProb(body) >= 50
        /\ result[1].status = "Safe" <=> BestProb(body) < 50

\* a comment whose maximum is exactly the threshold was reported as violating
C8_Witness ==
    /\ pc = "scored"
    /\ BestProb(body) = 50
    /\ result[1].status = "Violates rule"

\* the registries that hold the same rules as reg, in every order
Orders(reg) ==
    {s \in Registries :
        /\ Len(s) = Len(reg)
        /\ {s[j] : j \in DOMAIN s} = {reg[j] : j \in DOMAIN reg}}

\* the entry line 85-107 builds for the scored comment when the registry is
\* iterated in the order reg
EntryUnder(reg) == ResultEntry(RuleLoopIn(reg, body, 1, StartAcc).acc)

TopRules == {models[j] : j \in TopPositions}

\* the first rule of reg among those with the largest probability
FirstTopIn(reg) ==
    reg[CHOOSE j \in DOMAIN reg :
            /\ reg[j] \in TopRules
            /\ \A m \in DOMAIN reg : reg[m] \in TopRules => j <= m]

\* two or more rules share a largest probability that reaches the threshold
ViolatingTie == Tie /\ PredictProba(body, models[FirstTop]) >= Threshold

\* C13 as stated: every permutation of the registry's iteration order yields
\* the same entry (probability, status and rule) for the comment.
C13_OrderIrrelevant ==
    pc = "scored" => \A reg \in Orders(models) : EntryUnder(reg) = result[1]

\* C13 amended: every permutation yields the same probability and status,
\* and the same rule unless two or more rules tie at a maximum of at least
\* 0.5; then each order reports the first of the tied rules it meets.
C13_OrderIrrelevantButTies ==
    pc = "scored" =>
        \A reg \in Orders(models) :
            /\ EntryUnder(reg).probability = result[1].probability
            /\ EntryUnder(reg).status = result[1].status
            /\ IF ViolatingTie
               THEN EntryUnder(reg).rule = FirstTopIn(reg)
               ELSE EntryUnder(reg).rule = result[1].rule

\* three rules with different probabilities, the violated one iterated last
C13_Witness ==
    /\ pc = "scored"
    /\ Len(models) = 3
    /\ ~Tie
    /\ PredictProba(body, models[1]) # PredictProba(body, models[2])
    /\ result[1].status = "Violates rule"
    /\ result[1].rule = models[3]

\* C16: the reported probability is the maximum of 0 and the probabilities
\* of all rules of the registry: at least each of them, and 0 or equal to
\* one of them; each rule's model is asked exactly once, in registry order.
C16_MaxOverAllRules ==
    /\ pc = "scored" =>
          /\ \A j \in DOMAIN models :
                result[1].probability >= PredictProba(body, models[j])
          /\ \/ result[1].probability = 0
             \/ \E j \in DOMAIN models :
                   result[1].probability = PredictProba(body, models[j])
          /\ result[1].probability >= 0
          /\ work.calls = RowCalls(1, models)
          /\ \A r \in RegistryKeys :
                Cardinality({j \in DOMAIN work.calls : work.calls[j].rule = r}) = 1
    /\ pc = "rules" => work.calls = RowCalls(1, SubSeq(models, 1, k - 1))

\* three rules were asked and the largest probability came from the second
C16_Witness ==
    /\ pc = "scored"
    /\ Len(models) = 3
    /\ PredictProba(body, models[1]) = 49
    /\ PredictProba(body, models[2]) = 90
    /\ PredictProba(body, models[3]) = 50
    /\ result[1].probability = 90
    /\ Len(work.calls) = 3

(***************************************************************************)
(* Properties of add_numeric_features                                      *)
(***************************************************************************)
\* the text x holds the characters of pat in a row
Contains(x, pat) ==
    \E i \in 1..(Len(x) - Len(pat) + 1) : SubSeq(x, i, i + Len(pat) - 1) = pat

Http == <<"h", "t", "t", "p", ":", "/", "/">>

Https == <<"h", "t", "t", "p", "s", ":", "/", "/">>

\* C14 as stated: has_url is 1 exactly for the bodies that hold "http://"
\* or "https://" in any mix of upper and lower case.
C14_HasUrlAnyCase ==
    pc = "featured" =>
        (features[1].has_url = 1
            <=> \/ Contains(LowerText(FillNa(text)), Http)
                \/ Contains(LowerText(FillNa(text)), Https))

\* C14 amended: has_url is 1 exactly for the bodies that hold "http://" or
\* "https://" in lower case, and 0 for every other body.
C14_HasUrlLowerCase ==
    pc = "featured" =>
        /\ features[1].has_url \in {0, 1}
        /\ features[1].has_url = 1
              <=> Contains(FillNa(text), Http) \/ Contains(FillNa(text), Https)

\* a body with "https://" behind other characters got has_url = 1
C14_Witness ==
    /\ pc = "featured"
    /\ ~text.null
    /\ text.chars = <<"x">> \o Https
    /\ features[1].has_url = 1

\* C15: add_numeric_features fails on no body, and the upper-case count lies
\* between 0 and max(length, 1), the denominator of uppercase_ratio; on the
\* empty body and on null it is 0.
C15_UppercaseRatioInUnitRange ==
    /\ pc # "failed"
    /\ pc = "featured" =>
          LET x == FillNa(text)
              r == features[1].uppercase_ratio
          IN /\ r.num = Cardinality({i \in DOMAIN x : IsUpper(x[i])})
             /\ r.den = (IF Len(x) = 0 THEN 1 ELSE Len(x))
             /\ 0 <= r.num
             /\ r.num <= r.den
             /\ x = <<>> => r.num = 0
             /\ features[1].body_length = Len(x)

\* the features of a null cell were computed, with ratio 0 over 1
C15_Witness ==
    /\ pc = "featured"
    /\ text.null
    /\ features[1].uppercase_ratio = [num |-> 0, den |-> 1]
    /\ features[1].body_length = 0

====
